---- MODULE Spec2Model ----
(***************************************************************************)
(* Model of AWS-ORG-DATA-LOAD.py: the full-load job that truncates the     *)
(* consolidated table of the main repository and reloads it from the RDS   *)
(* instances of every target account.  lambda_handler is one sequential    *)
(* thread; pc is its position between two collaborator calls.              *)
(***************************************************************************)
EXTENDS Integers, Sequences, FiniteSets, TLC

VARIABLES
    HAS_POSTGRES,   \* psycopg2 could be imported (line 47 / 49)
    HAS_MSSQL,      \* pyodbc could be imported (line 54 / 56)
    pc,             \* position of lambda_handler
    central_creds,  \* value of central_creds (line 224)
    central_conn,   \* state of the connection opened at line 229
    table,          \* committed rows of TB_Consolidated_Audit
    acc_idx,        \* index in TARGET_ACCOUNTS of the account of line 240
    dbs,            \* dbs['DBInstances'] of the current account (line 250)
    db_idx,         \* index in dbs of the instance of line 255
    creds,          \* value of creds (line 265)
    full_data,      \* value of full_data (lines 271-279)
    total_synced,   \* line 237, 284
    report,         \* line 238, 285
    result,         \* what lambda_handler returned
    open_sources,   \* source connections opened by a reader and not closed
    trace,          \* collaborator calls of this invocation, in order
    run,            \* number of the invocation
    prev_trace,     \* calls of the previous invocation
    prev_table      \* the table as the previous invocation left it

vars == <<HAS_POSTGRES, HAS_MSSQL, pc, central_creds, central_conn, table,
          acc_idx, dbs, db_idx, creds, full_data, total_synced, report,
          result, open_sources, trace, run, prev_trace, prev_table>>

(***************************************************************************)
(* Bounds of the model.                                                    *)
(***************************************************************************)
NumAccounts == 2    \* length of TARGET_ACCOUNTS
MaxRows == 2        \* most rows TEST_AUDIT of one instance holds
MaxRuns == 2        \* invocations in a row (SpecRepeat)

(***************************************************************************)
(* GENERAL CONFIGURATION (lines 12-36).                                    *)
(***************************************************************************)
None == "None"

CENTRAL_REPO_SECRET_NAME == "xxx/yyy/zzzzzzzzzzzz/wwwwwwwww"

TARGET_ACCOUNTS ==
    [i \in 1..NumAccounts |-> [Id |-> i, Name |-> <<"AWS Account", i>>]]

BLACKLIST_RDS == {"db-1", "db-2", "db-3"}

(***************************************************************************)
(* Python's `sub in s` on strings.  A string is kept as the sequence of    *)
(* its pieces, cut so that the searched words are whole pieces.            *)
(***************************************************************************)
Contains(s, sub) ==
    \E i \in 1..Len(s) : s[i] = sub

(***************************************************************************)
(* The RDS instances of the accounts, as describe_db_instances lists them. *)
(* An instance without 'Endpoint' has host None (line 258).                *)
(***************************************************************************)
DbBlack ==
    [DBInstanceIdentifier |-> "db-1", Engine |-> <<"sqlserver", "-se">>,
     DBInstanceStatus |-> "available", Endpoint |-> "db-1.rds"]
DbCreating ==
    [DBInstanceIdentifier |-> "pg-new", Engine |-> <<"postgres">>,
     DBInstanceStatus |-> "creating", Endpoint |-> None]
DbMssql ==
    [DBInstanceIdentifier |-> "mssql-a", Engine |-> <<"sqlserver", "-se">>,
     DBInstanceStatus |-> "available", Endpoint |-> "mssql-a.rds"]
DbPostgres ==
    [DBInstanceIdentifier |-> "pg-a", Engine |-> <<"aurora-", "postgres", "ql">>,
     DBInstanceStatus |-> "available", Endpoint |-> "pg-a.rds"]
DbMysql ==
    [DBInstanceIdentifier |-> "my-a", Engine |-> <<"mysql">>,
     DBInstanceStatus |-> "available", Endpoint |-> "my-a.rds"]

\* dbs['DBInstances'] of an account
DBInstances(acc_id) ==
    IF acc_id % 2 = 1
    THEN <<DbBlack, DbMssql>>
    ELSE <<DbCreating, DbMysql, DbPostgres>>

(***************************************************************************)
(* Rows of TEST_AUDIT.  A row is the ordered list of its (column, value)   *)
(* pairs; a column name is the sequence of its characters.                 *)
(***************************************************************************)
LowerChars ==
    <<"a", "b", "c", "d", "e", "f", "g", "h", "i", "j", "k", "l", "m",
      "n", "o", "p", "q", "r", "s", "t", "u", "v", "w", "x", "y", "z">>
UpperChars ==
    <<"A", "B", "C", "D", "E", "F", "G", "H", "I", "J", "K", "L", "M",
      "N", "O", "P", "Q", "R", "S", "T", "U", "V", "W", "X", "Y", "Z">>

UpperOf ==
    [c \in {LowerChars[i] : i \in 1..Len(LowerChars)} |->
        UpperChars[CHOOSE i \in 1..Len(LowerChars) : LowerChars[i] = c]]

\* str.upper() of one character
UpperChar(c) == IF c \in DOMAIN UpperOf THEN UpperOf[c] ELSE c

\* the keys are looked up as they come, with no k.upper()
upper_left_out(k) == k

\* str.upper()
upper(k) == [i \in 1..Len(k) |-> UpperChar(k[i])]

SourceRowLower ==
    << << <<"i", "d">>, "1" >>,
       << <<"s", "t", "a", "t", "u", "s">>, "on" >>,
       << <<"n", "o", "t", "e">>, "n1" >> >>
SourceRowUpper ==
    << << <<"I", "D">>, "1" >>,
       << <<"S", "T", "A", "T", "U", "S">>, "on" >>,
       << <<"U", "D", "A", "T", "E">>, "u2" >> >>
SourceRowMixed ==
    << << <<"I", "d">>, "3" >>,
       << <<"U", "d", "a", "t", "e">>, "u3" >> >>

\* the k-th row of TEST_AUDIT
SourceRow(k) ==
    CASE k % 3 = 1 -> SourceRowLower
      [] k % 3 = 2 -> SourceRowUpper
      [] OTHER -> SourceRowMixed

\* cursor.fetchall() mapped to dicts (lines 185-186, 207) for a table of n rows
FetchAll(n) == [k \in 1..n |-> SourceRow(k)]

(***************************************************************************)
(* save_batch_to_central (lines 127-163).                                  *)
(***************************************************************************)
\* row_upper.get(key), row_upper == {k.upper(): v for k, v in row.items()}:
\* of two columns with the same upper-cased name the later one wins.
RowUpperGet(row, key) ==
    LET hits == {i \in 1..Len(row) : upper(row[i][1]) = key}
    IN  IF hits = {} THEN None
        ELSE row[CHOOSE i \in hits : \A j \in hits : j <= i][2]

\* the tuple appended to params (lines 144-152)
Param(row, source_account, source_db) ==
    [SourceAccount |-> source_account,
     SourceDB |-> source_db,
     ID |-> RowUpperGet(row, <<"I", "D">>),
     DESCRIPTION |-> RowUpperGet(row, <<"D", "E", "S", "C", "R", "I", "P", "T", "I", "O", "N">>),
     STATUS |-> RowUpperGet(row, <<"S", "T", "A", "T", "U", "S">>),
     UDATE |-> RowUpperGet(row, <<"U", "D", "A", "T", "E">>),
     INSTALLDATE |-> RowUpperGet(row, <<"I", "N", "S", "T", "A", "L", "L", "D", "A", "T", "E">>)]

Params(data_rows, source_account, source_db) ==
    [k \in 1..Len(data_rows) |-> Param(data_rows[k], source_account, source_db)]

\* conn.rollback() left out: the rows inserted before the error stay
save_batch_without_rollback(tbl, data_rows, source_account, source_db, outcome, done) ==
    IF Len(data_rows) = 0
    THEN [table |-> tbl, count |-> 0, raised |-> FALSE]
    ELSE LET params == Params(data_rows, source_account, source_db)
         IN  IF outcome = "ok"
             THEN [table |-> tbl \o params, count |-> Len(params), raised |-> FALSE]
             ELSE [table |-> tbl \o SubSeq(params, 1, done), count |-> 0, raised |-> TRUE]

\* count taken from the first row only instead of len(params)
save_batch_counting_one(tbl, data_rows, source_account, source_db, outcome, done) ==
    IF Len(data_rows) = 0
    THEN [table |-> tbl, count |-> 0, raised |-> FALSE]
    ELSE LET params == Params(data_rows, source_account, source_db)
         IN  IF outcome = "ok"
             THEN [table |-> tbl \o params, count |-> 1, raised |-> FALSE]
             ELSE [table |-> tbl, count |-> 0, raised |-> TRUE]

\* save_batch_to_central: outcome is "ok" or "error" (executemany or commit
\* raised after `done` rows were inserted in the open transaction).
\* Returns the committed table, the count and whether it raised.
save_batch_to_central(tbl, data_rows, source_account, source_db, outcome, done) ==
    IF Len(data_rows) = 0
    THEN [table |-> tbl, count |-> 0, raised |-> FALSE]
    ELSE LET params == Params(data_rows, source_account, source_db)
             pending == tbl \o SubSeq(params, 1, done)
         IN  IF outcome = "ok"
             THEN [table |-> tbl \o params, count |-> Len(params), raised |-> FALSE]
             ELSE \* conn.rollback(): the pending inserts are discarded; raise e
                  [table |-> SubSeq(pending, 1, Len(tbl)), count |-> 0, raised |-> TRUE]

(***************************************************************************)
(* truncate_central_table (lines 112-125).                                 *)
(***************************************************************************)
\* a cleanup that is never committed: the rows are still there
truncate_uncommitted(tbl, outcome) ==
    [table |-> tbl, raised |-> outcome # "ok"]

truncate_central_table(tbl, outcome) ==
    IF outcome = "ok"
    THEN [table |-> <<>>, raised |-> FALSE]
    ELSE \* conn.rollback(); raise e
         [table |-> tbl, raised |-> TRUE]

(***************************************************************************)
(* get_secret_local (lines 79-86).  What the secret store does:            *)
(*   ok            SecretString is a JSON object with the credentials      *)
(*   empty_object  SecretString is "{}"                                    *)
(*   no_string     the secret has no SecretString (a binary secret)        *)
(*   not_found     ClientError ResourceNotFoundException                   *)
(*   access_denied ClientError AccessDeniedException                       *)
(*   malformed     SecretString is not JSON: json.loads raises             *)
(*   transport     botocore EndpointConnectionError, not a ClientError     *)
(***************************************************************************)
SecretOutcomes ==
    {"ok", "empty_object", "no_string", "not_found", "access_denied",
     "malformed", "transport"}

\* the exceptions `except ClientError` (line 84) catches
IsClientError(outcome) == outcome \in {"not_found", "access_denied"}

get_secret_local(outcome) ==
    CASE outcome = "ok" -> [raised |-> FALSE, value |-> "dict"]
      [] outcome = "empty_object" -> [raised |-> FALSE, value |-> "empty_dict"]
      [] outcome = "no_string" -> [raised |-> FALSE, value |-> None]
      [] IsClientError(outcome) -> [raised |-> FALSE, value |-> None]
      [] OTHER -> [raised |-> TRUE, value |-> None]

\* Python truth of a value returned by get_secret_local (`if not creds`)
Truthy(value) == value = "dict"

(***************************************************************************)
(* The record of one collaborator call: the operation, the account and    *)
(* instance it is for (0 and the secret name for the main repository),    *)
(* how it ended and the number it answered (rows, or the listing).        *)
(***************************************************************************)
Call(op, acc, db, res, n) == [op |-> op, acc |-> acc, db |-> db, res |-> res, n |-> n]

Calls(tr) == {tr[i] : i \in 1..Len(tr)}

\* Unchanged sources: a call the previous invocation made answers as it did.
Same(op, acc, db, res, n) ==
    \A e \in Calls(prev_trace) :
        (e.op = op /\ e.acc = acc /\ e.db = db) => (e.res = res /\ e.n = n)

\* how a get_secret_local call ended, as its caller sees it
SecretRes(r) ==
    IF r.raised THEN "raise" ELSE IF Truthy(r.value) THEN "dict" ELSE "absent"

StaleRow ==
    [SourceAccount |-> <<"AWS Account", 0>>, SourceDB |-> "old-db", ID |-> "0",
     DESCRIPTION |-> None, STATUS |-> "off", UDATE |-> None, INSTALLDATE |-> None]

NoResult == [statusCode |-> 0, body |-> <<>>]

Init ==
    /\ HAS_POSTGRES \in BOOLEAN
    /\ HAS_MSSQL \in BOOLEAN
    /\ pc = "start"
    /\ central_creds = "unset"
    /\ central_conn = "unset"
    /\ table \in {<<>>, <<StaleRow>>}
    /\ acc_idx = 0
    /\ dbs = <<>>
    /\ db_idx = 0
    /\ creds = "unset"
    /\ full_data = <<>>
    /\ total_synced = 0
    /\ report = <<>>
    /\ result = NoResult
    /\ open_sources = 0
    /\ trace = <<>>
    /\ run = 1
    /\ prev_trace = <<>>
    /\ prev_table = <<>>

\* the account and instance of the current iteration
account == TARGET_ACCOUNTS[acc_idx]

\* the listing walked from its last instance
db_from_the_end == dbs[Len(dbs) + 1 - db_idx]

db == dbs[db_idx]

\* lines 221-226
GetCentralSecret ==
    /\ pc = "start"
    /\ \E o \in SecretOutcomes :
         LET r == get_secret_local(o) IN
         /\ Same("get_secret", 0, CENTRAL_REPO_SECRET_NAME, SecretRes(r), 0)
         /\ trace' = Append(trace, Call("get_secret", 0, CENTRAL_REPO_SECRET_NAME, SecretRes(r), 0))
         /\ IF r.raised
            THEN /\ pc' = "raised"
                 /\ UNCHANGED <<central_creds, result>>
            ELSE /\ central_creds' = r.value
                 /\ IF ~Truthy(r.value)
                    THEN /\ pc' = "fatal"
                         /\ result' = [statusCode |-> 500,
                                       body |-> <<"Error: No main repository credentials found.">>]
                    ELSE /\ pc' = "central_ready"
                         /\ UNCHANGED result
    /\ UNCHANGED <<HAS_POSTGRES, HAS_MSSQL, central_conn, table, acc_idx, dbs, db_idx,
                   creds, full_data, total_synced, report, open_sources, run,
                   prev_trace, prev_table>>

\* what the except clause of lines 234-235 answers
FatalOnCleanup(e) ==
    [statusCode |-> 500, body |-> <<"Fatal error on connecting/cleaning up: ", e>>]

\* get_central_connection (lines 99-110) called at line 229, and the
\* except clause of lines 234-235
GetCentralConnection ==
    /\ pc = "central_ready"
    /\ \E o \in {"ok", "error"} :
         LET res == IF ~HAS_POSTGRES THEN "driver_absent" ELSE o IN
         /\ Same("connect_central", 0, "", res, 0)
         /\ trace' = Append(trace, Call("connect_central", 0, "", res, 0))
         /\ IF res = "ok"
            THEN /\ central_conn' = "open"
                 /\ pc' = "connected"
                 /\ UNCHANGED result
            ELSE /\ pc' = "fatal"
                 /\ result' = FatalOnCleanup(res)
                 /\ UNCHANGED central_conn
    /\ UNCHANGED <<HAS_POSTGRES, HAS_MSSQL, central_creds, table, acc_idx, dbs, db_idx,
                   creds, full_data, total_synced, report, open_sources, run,
                   prev_trace, prev_table>>

\* the failure of the cleanup logged and not returned
AfterCleanupIgnoringFailure(raised) == "tenant_loop"

\* where line 232 leaves lambda_handler: the tenant loop, or the return of line 235
AfterCleanup(raised) == IF raised THEN "fatal" ELSE "tenant_loop"

\* line 232, the except clause of lines 234-235, and lines 237-238
TruncateCentralTable ==
    /\ pc = "connected"
    /\ \E o \in {"ok", "error"} :
         LET r == truncate_central_table(table, o) IN
         /\ Same("truncate", 0, "", o, 0)
         /\ trace' = Append(trace, Call("truncate", 0, "", o, 0))
         /\ table' = r.table
         /\ pc' = AfterCleanup(r.raised)
         /\ IF AfterCleanup(r.raised) = "fatal"
            THEN /\ result' = FatalOnCleanup(o)
                 /\ UNCHANGED <<total_synced, report>>
            ELSE /\ total_synced' = 0
                 /\ report' = <<>>
                 /\ UNCHANGED result
    /\ UNCHANGED <<HAS_POSTGRES, HAS_MSSQL, central_creds, central_conn, acc_idx, dbs,
                   db_idx, creds, full_data, open_sources, run, prev_trace, prev_table>>

\* line 245 left out: a failed assume_role is not skipped
AfterAssumeRoleUnchecked(o) == "assumed"

\* line 245: `if not target_session: continue`
AfterAssumeRole(o) == IF o = "ok" THEN "assumed" ELSE "tenant_loop"

\* the cleanup done for every account instead of once
AssumeRoleTruncating ==
    /\ pc = "tenant_loop"
    /\ acc_idx < Len(TARGET_ACCOUNTS)
    /\ acc_idx' = acc_idx + 1
    /\ table' = <<>>
    /\ \E o \in {"ok", "error"} :
         /\ trace' = trace \o <<Call("truncate", 0, "", "ok", 0),
                                 Call("assume_role", TARGET_ACCOUNTS[acc_idx + 1].Id, "", o, 0)>>
         /\ pc' = AfterAssumeRole(o)
    /\ UNCHANGED <<HAS_POSTGRES, HAS_MSSQL, central_creds, central_conn, dbs,
                   db_idx, creds, full_data, total_synced, report, result, open_sources,
                   run, prev_trace, prev_table>>

\* lines 240-245: the next account of TARGET_ACCOUNTS and assume_role
\* (lines 63-77), which answers None on any exception
AssumeRole ==
    /\ pc = "tenant_loop"
    /\ acc_idx < Len(TARGET_ACCOUNTS)
    /\ acc_idx' = acc_idx + 1
    /\ \E o \in {"ok", "error"} :
         /\ Same("assume_role", TARGET_ACCOUNTS[acc_idx + 1].Id, "", o, 0)
         /\ trace' = Append(trace, Call("assume_role", TARGET_ACCOUNTS[acc_idx + 1].Id, "", o, 0))
         /\ pc' = AfterAssumeRole(o)
    /\ UNCHANGED <<HAS_POSTGRES, HAS_MSSQL, central_creds, central_conn, table, dbs,
                   db_idx, creds, full_data, total_synced, report, result, open_sources,
                   run, prev_trace, prev_table>>

\* lines 247-253: describe_db_instances answers the instances of the
\* account, or raises
DescribeDBInstances ==
    /\ pc = "assumed"
    /\ \E o \in {"ok", "error"} :
         LET n == IF o = "ok" THEN Len(DBInstances(account.Id)) ELSE 0 IN
         /\ Same("describe_db_instances", account.Id, "", o, n)
         /\ trace' = Append(trace, Call("describe_db_instances", account.Id, "", o, n))
         /\ IF o = "ok"
            THEN /\ dbs' = DBInstances(account.Id)
                 /\ db_idx' = 0
                 /\ pc' = "instance_loop"
            ELSE /\ pc' = "tenant_loop"
                 /\ UNCHANGED <<dbs, db_idx>>
    /\ UNCHANGED <<HAS_POSTGRES, HAS_MSSQL, central_creds, central_conn, table, acc_idx,
                   creds, full_data, total_synced, report, result, open_sources, run,
                   prev_trace, prev_table>>

\* the denylist test left out of line 260
SkippedByStatusOnly(d) == d.DBInstanceStatus # "available"

\* the test of line 260
Skipped(d) ==
    d.DBInstanceIdentifier \in BLACKLIST_RDS \/ d.DBInstanceStatus # "available"

\* lines 255-261: the next instance of dbs and the denylist and status test
NextInstance ==
    /\ pc = "instance_loop"
    /\ db_idx < Len(dbs)
    /\ db_idx' = db_idx + 1
    /\ pc' = IF Skipped(dbs[db_idx + 1]) THEN "instance_loop" ELSE "eligible"
    /\ UNCHANGED <<HAS_POSTGRES, HAS_MSSQL, central_creds, central_conn, table, acc_idx,
                   dbs, creds, full_data, total_synced, report, result, open_sources,
                   trace, run, prev_trace, prev_table>>

\* line 255: dbs is exhausted, back to the loop of line 240
EndOfInstances ==
    /\ pc = "instance_loop"
    /\ db_idx = Len(dbs)
    /\ pc' = "tenant_loop"
    /\ UNCHANGED <<HAS_POSTGRES, HAS_MSSQL, central_creds, central_conn, table, acc_idx,
                   dbs, db_idx, creds, full_data, total_synced, report, result,
                   open_sources, trace, run, prev_trace, prev_table>>

\* lines 267-269 left out: the reader is called with the absent credentials
AfterInstanceSecretUnchecked(value) == "dispatch"

\* lines 267-269: `if not creds: ... continue`
AfterInstanceSecret(value) == IF ~Truthy(value) THEN "instance_loop" ELSE "dispatch"

\* lines 263-271: the secret of the instance, f"xxx/yyy/{acc_id}/{db_id}"
GetInstanceSecret ==
    /\ pc = "eligible"
    /\ \E o \in SecretOutcomes :
         LET r == get_secret_local(o) IN
         /\ Same("get_secret", account.Id, db.DBInstanceIdentifier, SecretRes(r), 0)
         /\ trace' = Append(trace, Call("get_secret", account.Id, db.DBInstanceIdentifier,
                                        SecretRes(r), 0))
         /\ IF r.raised
            THEN /\ pc' = "raised"
                 /\ UNCHANGED <<creds, full_data>>
            ELSE /\ creds' = r.value
                 /\ pc' = AfterInstanceSecret(r.value)
                 /\ IF AfterInstanceSecret(r.value) = "instance_loop"
                    THEN UNCHANGED full_data
                    ELSE full_data' = <<>>
    /\ UNCHANGED <<HAS_POSTGRES, HAS_MSSQL, central_creds, central_conn, table, acc_idx,
                   dbs, db_idx, total_synced, report, result, open_sources, run,
                   prev_trace, prev_table>>

(***************************************************************************)
(* The readers (lines 169-212).  What the source does:                     *)
(*   connect_error  connect raises: nothing was opened                     *)
(*   query_error    execute or fetchall raises on the open connection      *)
(*   ok             the query answers the n rows of TEST_AUDIT             *)
(* Both readers close the connection on the way that returns the rows      *)
(* (lines 187, 208) and nowhere else.                                      *)
(***************************************************************************)
SourceOutcomes == {"connect_error", "query_error", "ok"}

\* line 170 (194) left out: the reader connects whether or not the driver
\* was imported
ReaderWithoutDriverTest(has_driver, outcome, n) ==
    CASE outcome = "connect_error" ->
            [res |-> outcome, rows |-> <<>>, left_open |-> 0]
      [] outcome = "query_error" ->
            [res |-> outcome, rows |-> <<>>, left_open |-> 1]
      [] OTHER ->
            [res |-> "ok", rows |-> FetchAll(n), left_open |-> 0]

\* the except block (lines 189-191, 210-212) answering a row instead of []
ReaderAnsweringOnError(has_driver, outcome, n) ==
    IF ~has_driver
    THEN [res |-> "driver_absent", rows |-> <<>>, left_open |-> 0]
    ELSE CASE outcome = "connect_error" ->
                [res |-> outcome, rows |-> <<>>, left_open |-> 0]
           [] outcome = "query_error" ->
                [res |-> outcome, rows |-> FetchAll(1), left_open |-> 1]
           [] OTHER ->
                [res |-> "ok", rows |-> FetchAll(n), left_open |-> 0]

\* the body of execute_mssql_full and of execute_postgres_full
Reader(has_driver, outcome, n) ==
    IF ~has_driver
    THEN [res |-> "driver_absent", rows |-> <<>>, left_open |-> 0]
    ELSE CASE outcome = "connect_error" ->
                [res |-> outcome, rows |-> <<>>, left_open |-> 0]
           [] outcome = "query_error" ->
                [res |-> outcome, rows |-> <<>>, left_open |-> 1]
           [] OTHER ->
                [res |-> "ok", rows |-> FetchAll(n), left_open |-> 0]

execute_mssql_full(outcome, n) == Reader(HAS_MSSQL, outcome, n)

execute_postgres_full(outcome, n) == Reader(HAS_POSTGRES, outcome, n)

\* an instance without host cannot be connected to
Reachable(d, outcome) == d.Endpoint = None => outcome = "connect_error"

\* what follows a reader's return: full_data is set, line 281 is next
Fetched(op, r) ==
    /\ Same(op, account.Id, db.DBInstanceIdentifier, r.res, Len(r.rows))
    /\ trace' = Append(trace, Call(op, account.Id, db.DBInstanceIdentifier, r.res, Len(r.rows)))
    /\ full_data' = r.rows
    /\ open_sources' = open_sources + r.left_open
    /\ pc' = "fetched"

\* `else` in the place of `elif "postgres" in engine`
DispatchOtherwisePostgres(engine) ==
    IF Contains(engine, "sqlserver") THEN "execute_mssql_full"
    ELSE "execute_postgres_full"

\* lines 275-279: the reader chosen for an engine, "none" when no branch is taken
Dispatch(engine) ==
    IF Contains(engine, "sqlserver") THEN "execute_mssql_full"
    ELSE IF Contains(engine, "postgres") THEN "execute_postgres_full"
    ELSE "none"

\* lines 275-276
ExecuteMssqlFull ==
    /\ pc = "dispatch"
    /\ Dispatch(db.Engine) = "execute_mssql_full"
    /\ \E o \in SourceOutcomes, n \in 0..MaxRows :
         /\ (o # "ok" \/ ~HAS_MSSQL) => n = 0
         /\ Reachable(db, o)
         /\ Fetched("execute_mssql_full", execute_mssql_full(o, n))
    /\ UNCHANGED <<HAS_POSTGRES, HAS_MSSQL, central_creds, central_conn, table, acc_idx,
                   dbs, db_idx, creds, total_synced, report, result, run, prev_trace,
                   prev_table>>

\* lines 278-279
ExecutePostgresFull ==
    /\ pc = "dispatch"
    /\ Dispatch(db.Engine) = "execute_postgres_full"
    /\ \E o \in SourceOutcomes, n \in 0..MaxRows :
         /\ (o # "ok" \/ ~HAS_POSTGRES) => n = 0
         /\ Reachable(db, o)
         /\ Fetched("execute_postgres_full", execute_postgres_full(o, n))
    /\ UNCHANGED <<HAS_POSTGRES, HAS_MSSQL, central_creds, central_conn, table, acc_idx,
                   dbs, db_idx, creds, total_synced, report, result, run, prev_trace,
                   prev_table>>

\* lines 271-279 when neither test holds: full_data stays []
NoReader ==
    /\ pc = "dispatch"
    /\ Dispatch(db.Engine) = "none"
    /\ pc' = "fetched"
    /\ UNCHANGED <<HAS_POSTGRES, HAS_MSSQL, central_creds, central_conn, table, acc_idx,
                   dbs, db_idx, creds, full_data, total_synced, report, result,
                   open_sources, trace, run, prev_trace, prev_table>>

\* line 281 left out: every fetched batch is written
HasDataAlways(rows) == TRUE

\* the test of line 281: Python truth of a list
HasData(rows) == Len(rows) > 0

\* the report line made from the running total instead of the batch count
ReportLineOfTotal(db_id, inserted) ==
    [db_id |-> db_id, inserted |-> total_synced + inserted]

\* the line appended to report (line 285)
ReportLine(db_id, inserted) == [db_id |-> db_id, inserted |-> inserted]

\* lines 281-285: save_batch_to_central is called outside any try, so what
\* it raises leaves lambda_handler
SaveBatch ==
    /\ pc = "fetched"
    /\ HasData(full_data)
    /\ \E o \in {"ok", "error"}, done \in 0..Len(full_data) :
         LET r == save_batch_to_central(table, full_data, account.Name,
                                        db.DBInstanceIdentifier, o, done)
             res == IF r.raised THEN "raise" ELSE "ok"
         IN
         /\ Same("save_batch", account.Id, db.DBInstanceIdentifier, res, r.count)
         /\ trace' = Append(trace, Call("save_batch", account.Id, db.DBInstanceIdentifier,
                                        res, r.count))
         /\ table' = r.table
         /\ IF r.raised
            THEN /\ pc' = "raised"
                 /\ UNCHANGED <<total_synced, report>>
            ELSE /\ total_synced' = total_synced + r.count
                 /\ report' = Append(report, ReportLine(db.DBInstanceIdentifier, r.count))
                 /\ pc' = "instance_loop"
    /\ UNCHANGED <<HAS_POSTGRES, HAS_MSSQL, central_creds, central_conn, acc_idx, dbs,
                   db_idx, creds, full_data, result, open_sources, run, prev_trace,
                   prev_table>>

\* lines 286-287
NoDataFound ==
    /\ pc = "fetched"
    /\ ~HasData(full_data)
    /\ pc' = "instance_loop"
    /\ UNCHANGED <<HAS_POSTGRES, HAS_MSSQL, central_creds, central_conn, table, acc_idx,
                   dbs, db_idx, creds, full_data, total_synced, report, result,
                   open_sources, trace, run, prev_trace, prev_table>>

\* lines 289-294: TARGET_ACCOUNTS is exhausted
Finish ==
    /\ pc = "tenant_loop"
    /\ acc_idx = Len(TARGET_ACCOUNTS)
    /\ central_conn' = "closed"
    /\ trace' = Append(trace, Call("close_central", 0, "", "ok", 0))
    /\ result' = [statusCode |-> 200,
                  body |-> <<[status |-> "Success (Full Load)",
                              total_records |-> total_synced,
                              details |-> report]>>]
    /\ pc' = "done"
    /\ UNCHANGED <<HAS_POSTGRES, HAS_MSSQL, central_creds, table, acc_idx, dbs, db_idx,
                   creds, full_data, total_synced, report, open_sources, run,
                   prev_trace, prev_table>>

Returned == pc \in {"done", "fatal", "raised"}

\* the job is invoked again: the locals are new, the deployment, the table
\* and the sources are as they were
InvokeAgain ==
    /\ Returned
    /\ run < MaxRuns
    /\ run' = run + 1
    /\ prev_trace' = trace
    /\ prev_table' = table
    /\ pc' = "start"
    /\ central_creds' = "unset"
    /\ central_conn' = "unset"
    /\ acc_idx' = 0
    /\ dbs' = <<>>
    /\ db_idx' = 0
    /\ creds' = "unset"
    /\ full_data' = <<>>
    /\ total_synced' = 0
    /\ report' = <<>>
    /\ result' = NoResult
    /\ trace' = <<>>
    /\ UNCHANGED <<HAS_POSTGRES, HAS_MSSQL, table, open_sources>>

Next ==
    \/ GetCentralSecret
    \/ GetCentralConnection
    \/ TruncateCentralTable
    \/ AssumeRole
    \/ DescribeDBInstances
    \/ NextInstance
    \/ EndOfInstances
    \/ GetInstanceSecret
    \/ ExecuteMssqlFull
    \/ ExecutePostgresFull
    \/ NoReader
    \/ SaveBatch
    \/ NoDataFound
    \/ Finish

\* one invocation of lambda_handler
Spec == Init /\ [][Next]_vars

NextRepeat == Next \/ InvokeAgain

\* both drivers are installed and the table holds an earlier load
InitRepeat == Init /\ HAS_POSTGRES /\ HAS_MSSQL /\ table = <<StaleRow>>

\* MaxRuns invocations in a row against unchanged sources
SpecRepeat == InitRepeat /\ [][NextRepeat]_vars

\* one invocation; lambda_handler is a running thread, it takes its next step
LiveSpec == Init /\ [][Next]_vars /\ WF_vars(Next)

(***************************************************************************)
(* Vocabulary of the properties.                                           *)
(***************************************************************************)
ReaderOps == {"execute_mssql_full", "execute_postgres_full"}

\* the calls made for one instance: its secret lookup, its reader, its write
InstanceOps == {"get_secret", "save_batch"} \cup ReaderOps

\* positions in the trace of the calls of one operation
At(op) == {i \in 1..Len(trace) : trace[i].op = op}

\* positions of the calls made for a tenant (the main repository is account 0)
TenantWork == {i \in 1..Len(trace) : trace[i].acc > 0}

\* lambda_handler is inside the loop of line 240
InTenantLoop ==
    pc \in {"tenant_loop", "assumed", "instance_loop", "eligible", "dispatch", "fetched"}

\* the credential exchange or the discovery of account a failed
TenantSkipped(a) ==
    \E e \in Calls(trace) :
        e.acc = a /\ e.op \in {"assume_role", "describe_db_instances"} /\ e.res = "error"

RECURSIVE SumInserted(_)
SumInserted(lines) ==
    IF lines = <<>> THEN 0 ELSE lines[1].inserted + SumInserted(Tail(lines))

\* the report lines of the successful writes made for the accounts in accs
LinesOfWrites(accs) ==
    LET Kept(e) == e.op = "save_batch" /\ e.res = "ok" /\ e.acc \in accs
        kept == SelectSeq(trace, Kept)
    IN  [i \in 1..Len(kept) |-> [db_id |-> kept[i].db, inserted |-> kept[i].n]]

(***************************************************************************)
(* C1 (as amended): no invocation truncates more than once or makes a call *)
(* for a tenant before a truncation; every invocation that enters the      *)
(* tenant loop or makes any call for a tenant has executed exactly one     *)
(* truncation, successfully, before the first such call.                   *)
(***************************************************************************)
C1_TruncatesOnceBeforeTenants ==
    /\ Cardinality(At("truncate")) <= 1
    /\ (TenantWork # {} \/ InTenantLoop \/ pc = "done") =>
          \E t \in At("truncate") :
              /\ trace[t].res = "ok"
              /\ \A w \in TenantWork : t < w

\* C1, reached: a finished load that wrote a batch
C1_Witness ==
    /\ pc = "done"
    /\ \E w \in At("save_batch") : trace[w].res = "ok"

(***************************************************************************)
(* C1 as stated: EVERY invocation executes the truncation exactly once,    *)
(* before any call for a tenant.                                           *)
(***************************************************************************)
C1_TruncatesOnceInEveryRun ==
    /\ Cardinality(At("truncate")) <= 1
    /\ \A w \in TenantWork : \E t \in At("truncate") : t < w
    /\ Returned => Cardinality(At("truncate")) = 1

(***************************************************************************)
(* C2 as stated: a write that fails does not end the invocation: the       *)
(* orchestrator goes on with the next instance.                            *)
(***************************************************************************)
C2_WriteFailureSkipsInstance ==
    \A e \in Calls(trace) :
        (e.op = "save_batch" /\ e.res = "raise") => pc # "raised"

(***************************************************************************)
(* C3: for a tenant whose assume_role or describe_db_instances failed no   *)
(* secret is looked up, no reader is called and nothing is written; the    *)
(* handler is back at the head of the tenant loop, where the next account  *)
(* is taken (after the last one, the load finishes); and the total and the *)
(* report are those of the writes of the other tenants alone.              *)
(***************************************************************************)
C3_SkippedTenantLeavesNoMark ==
    LET others == {a \in 1..NumAccounts : ~TenantSkipped(a)} IN
    /\ \A a \in 1..NumAccounts :
          TenantSkipped(a) =>
              /\ \A e \in Calls(trace) : e.acc = a => e.op \notin InstanceOps
              /\ \A i \in 1..Len(table) : table[i].SourceAccount # TARGET_ACCOUNTS[a].Name
              /\ acc_idx = a => (pc = "tenant_loop" \/ (a = NumAccounts /\ pc = "done"))
              /\ (acc_idx = a /\ a < NumAccounts) => ENABLED AssumeRole
    /\ (InTenantLoop \/ pc = "done") =>
          /\ report = LinesOfWrites(others)
          /\ total_synced = SumInserted(LinesOfWrites(others))

\* C3, reached: an account was skipped and a later one was loaded
C3_Witness ==
    /\ pc = "done"
    /\ \E a \in 1..NumAccounts :
          /\ TenantSkipped(a)
          /\ \E e \in Calls(trace) : e.acc > a /\ e.op = "save_batch" /\ e.res = "ok"

(***************************************************************************)
(* C4: for a listed instance that is in BLACKLIST_RDS or whose status is   *)
(* not 'available' there is no secret lookup, no reader call and no write. *)
(***************************************************************************)
C4_IneligibleInstanceUntouched ==
    \A l \in Calls(trace) :
        (l.op = "describe_db_instances" /\ l.res = "ok") =>
            \A k \in 1..Len(DBInstances(l.acc)) :
                LET d == DBInstances(l.acc)[k] IN
                (d.DBInstanceIdentifier \in BLACKLIST_RDS \/ d.DBInstanceStatus # "available") =>
                    /\ \A e \in Calls(trace) :
                          (e.acc = l.acc /\ e.db = d.DBInstanceIdentifier) => e.op \notin InstanceOps
                    /\ \A i \in 1..Len(table) :
                          ~(/\ table[i].SourceAccount = TARGET_ACCOUNTS[l.acc].Name
                            /\ table[i].SourceDB = d.DBInstanceIdentifier)

\* C4, reached: a denylisted and a not available instance were listed and
\* the load went on to write other instances
C4_Witness ==
    /\ pc = "done"
    /\ \E l \in Calls(trace) :
          /\ l.op = "describe_db_instances" /\ l.res = "ok"
          /\ \E k \in 1..Len(DBInstances(l.acc)) :
                DBInstances(l.acc)[k].DBInstanceIdentifier \in BLACKLIST_RDS
    /\ \E l \in Calls(trace) :
          /\ l.op = "describe_db_instances" /\ l.res = "ok"
          /\ \E k \in 1..Len(DBInstances(l.acc)) :
                DBInstances(l.acc)[k].DBInstanceStatus # "available"
    /\ Len(report) = 2

(***************************************************************************)
(* C5: when the central credentials are absent, the central connection     *)
(* cannot be opened or the truncation fails, lambda_handler has returned   *)
(* statusCode 500 and made no call for any tenant; with absent credentials *)
(* the secret lookup is the only call made (no connection, no truncation). *)
(***************************************************************************)
C5_FatalProcessesNoTenant ==
    /\ pc = "fatal" => (result.statusCode = 500 /\ TenantWork = {})
    /\ (\E e \in Calls(trace) : e.op = "get_secret" /\ e.acc = 0 /\ e.res = "absent") =>
          (pc = "fatal" /\ Len(trace) = 1)
    /\ (\E e \in Calls(trace) : e.op = "connect_central" /\ e.res # "ok") =>
          (pc = "fatal" /\ At("truncate") = {} /\ TenantWork = {})
    /\ (\E e \in Calls(trace) : e.op = "truncate" /\ e.res # "ok") =>
          (pc = "fatal" /\ result.statusCode = 500 /\ TenantWork = {})

\* C5, reached: the truncation failed on a table that holds an earlier load
C5_Witness ==
    /\ pc = "fatal"
    /\ \E e \in Calls(trace) : e.op = "truncate" /\ e.res = "error"
    /\ table = <<StaleRow>>

(***************************************************************************)
(* C6: the counts of the report lines add up to total_synced at every      *)
(* point, and to total_records in the result returned.                     *)
(***************************************************************************)
C6_ReportSumsToTotal ==
    /\ SumInserted(report) = total_synced
    /\ pc = "done" =>
          result.body[1].total_records = SumInserted(result.body[1].details)

\* C6, reached: a returned report of two lines
C6_Witness ==
    /\ pc = "done"
    /\ Len(result.body[1].details) = 2
    /\ result.body[1].total_records > 2

(***************************************************************************)
(* C7: for an instance whose reader answered no row (it failed, or the     *)
(* table is empty) save_batch_to_central is never called and no row of it  *)
(* is in the table; the step taken on an empty full_data changes neither   *)
(* the total, the report nor the table and makes no call.                  *)
(***************************************************************************)
C7_EmptyBatchNeverWritten ==
    /\ [](\A r \in Calls(trace) :
            (r.op \in ReaderOps /\ r.n = 0) =>
                /\ \A e \in Calls(trace) :
                      (e.acc = r.acc /\ e.db = r.db) => e.op # "save_batch"
                /\ \A i \in 1..Len(table) :
                      ~(/\ table[i].SourceAccount = TARGET_ACCOUNTS[r.acc].Name
                        /\ table[i].SourceDB = r.db))
    /\ [][(pc = "fetched" /\ Len(full_data) = 0) =>
            (/\ table' = table
             /\ total_synced' = total_synced
             /\ report' = report
             /\ trace' = trace
             /\ pc' = "instance_loop")]_vars

\* C7, reached: one reader found an empty table, another failed, and the
\* load finished
C7_Witness ==
    /\ pc = "done"
    /\ \E r \in Calls(trace) : r.op \in ReaderOps /\ r.res = "ok" /\ r.n = 0
    /\ \E r \in Calls(trace) : r.op \in ReaderOps /\ r.res = "query_error"

(***************************************************************************)
(* C8: an invocation that follows another, with every call answering as    *)
(* before, leaves the table as the one before left it.                     *)
(***************************************************************************)
C8_SecondLoadSameTable ==
    (run > 1 /\ Returned) => table = prev_table

\* C8, reached: the second load finished and the table holds its rows
C8_Witness ==
    /\ run = 2
    /\ pc = "done"
    /\ Len(table) > MaxRows
    /\ total_synced = Len(table)

(***************************************************************************)
(* C9 as stated: get_secret_local never lets a failure of the lookup or of *)
(* the parsing out: no call of it ends with an exception.                  *)
(***************************************************************************)
C9_SecretLookupNeverRaises ==
    \A e \in Calls(trace) : e.op = "get_secret" => e.res # "raise"

(***************************************************************************)
(* C10 as stated: once the truncation has succeeded the invocation ends on *)
(* the success result, statusCode 200, whatever fails in the loop; and the *)
(* failure result is returned before the loop only.                        *)
(***************************************************************************)
C10_LoopAlwaysReachesDone ==
    /\ (\E t \in At("truncate") : trace[t].res = "ok")
          ~> (pc = "done" /\ result.statusCode = 200)
    /\ [](pc = "fatal" => ~(\E t \in At("truncate") : trace[t].res = "ok"))

\* position of instance db_id in the listing of account a (0: not listed)
PosOf(a, db_id) ==
    LET hits == {k \in 1..Len(DBInstances(a)) :
                    DBInstances(a)[k].DBInstanceIdentifier = db_id}
    IN  IF hits = {} THEN 0 ELSE CHOOSE k \in hits : TRUE

\* the rows of the table written for instance db_id of account a
RowsOf(a, db_id) ==
    {i \in 1..Len(table) :
        /\ table[i].SourceAccount = <<"AWS Account", a>>
        /\ table[i].SourceDB = db_id}

(***************************************************************************)
(* C11: for an eligible instance whose secret is absent no reader is       *)
(* called and nothing is written; the step that finds it absent changes    *)
(* neither the total, the report nor the table and goes back to the        *)
(* instance loop at the same position, so that the next instance is taken; *)
(* the invocation does not end on the failure result; and a load that      *)
(* finished has looked up the secret of every eligible instance listed.    *)
(***************************************************************************)
C11_AbsentSecretSkipsInstance ==
    /\ [](\A s \in Calls(trace) :
            (s.op = "get_secret" /\ s.acc > 0 /\ s.res = "absent") =>
                /\ \A e \in Calls(trace) :
                      (e.acc = s.acc /\ e.db = s.db) => e.op \notin (ReaderOps \cup {"save_batch"})
                /\ RowsOf(s.acc, s.db) = {}
                /\ pc # "fatal"
                /\ pc = "done" =>
                      \A l \in Calls(trace) :
                          (l.op = "describe_db_instances" /\ l.res = "ok") =>
                              \A k \in 1..Len(DBInstances(l.acc)) :
                                  LET d == DBInstances(l.acc)[k] IN
                                  (d.DBInstanceIdentifier \notin BLACKLIST_RDS
                                     /\ d.DBInstanceStatus = "available") =>
                                      \E e \in Calls(trace) :
                                          /\ e.op = "get_secret"
                                          /\ e.acc = l.acc
                                          /\ e.db = d.DBInstanceIdentifier)
    /\ [][(pc = "eligible" /\ trace'[Len(trace')].res = "absent") =>
            (/\ pc' = "instance_loop"
             /\ db_idx' = db_idx /\ acc_idx' = acc_idx /\ dbs' = dbs
             /\ table' = table
             /\ total_synced' = total_synced
             /\ report' = report)]_vars

\* C11, reached: the secret of one instance was absent, a later instance of
\* the same account was written and the load finished
C11_Witness ==
    /\ pc = "done"
    /\ \E s \in Calls(trace), w \in Calls(trace) :
          /\ s.op = "get_secret" /\ s.acc > 0 /\ s.res = "absent"
          /\ w.op = "save_batch" /\ w.res = "ok" /\ w.acc = s.acc
          /\ PosOf(w.acc, w.db) > PosOf(s.acc, s.db)

(***************************************************************************)
(* C12 (as amended): without pyodbc every execute_mssql_full call answers  *)
(* no row, opens no connection and raises nothing, nothing is written for  *)
(* its instance, and a load that finishes returns statusCode 200 with the  *)
(* batches of the postgres instances written.  Without psycopg2 the        *)
(* invocation returns statusCode 500 from get_central_connection and makes *)
(* no call for any tenant.                                                 *)
(***************************************************************************)
C12_MssqlFamilyIsOptional ==
    /\ ~HAS_MSSQL =>
          /\ \A e \in Calls(trace) :
                e.op = "execute_mssql_full" =>
                    /\ e.res = "driver_absent" /\ e.n = 0
                    /\ \A w \in Calls(trace) :
                          (w.acc = e.acc /\ w.db = e.db) => w.op # "save_batch"
          /\ open_sources =
                Cardinality({i \in At("execute_postgres_full") : trace[i].res = "query_error"})
          /\ pc = "done" =>
                /\ result.statusCode = 200
                /\ \A e \in Calls(trace) :
                      (e.op = "execute_postgres_full" /\ e.n > 0) =>
                          \E w \in Calls(trace) :
                              /\ w.op = "save_batch" /\ w.res = "ok"
                              /\ w.acc = e.acc /\ w.db = e.db /\ w.n = e.n
    /\ HAS_MSSQL => \A e \in Calls(trace) : e.res = "driver_absent" => e.op = "connect_central"
    /\ \A e \in Calls(trace) :
          e.op = "connect_central" =>
              /\ (e.res = "driver_absent") = ~HAS_POSTGRES
              /\ ~HAS_POSTGRES =>
                    (pc = "fatal" /\ result.statusCode = 500 /\ TenantWork = {})

\* C12, reached: without pyodbc a sqlserver instance was passed over, a
\* postgres instance was loaded and the load finished
C12_Witness ==
    /\ ~HAS_MSSQL
    /\ pc = "done"
    /\ \E e \in Calls(trace) : e.op = "execute_mssql_full" /\ e.res = "driver_absent"
    /\ \E e \in Calls(trace) : e.op = "execute_postgres_full" /\ e.n = MaxRows
    /\ total_synced = MaxRows

(***************************************************************************)
(* C12 as stated: either family can be left out: a reader whose driver is  *)
(* missing answers no row, and the missing driver never keeps the          *)
(* invocation from loading the other family and ending on success.         *)
(***************************************************************************)
C12_EitherFamilyIsOptional ==
    /\ ~HAS_MSSQL =>
          \A e \in Calls(trace) :
              e.op = "execute_mssql_full" => (e.res = "driver_absent" /\ e.n = 0)
    /\ ~HAS_POSTGRES =>
          \A e \in Calls(trace) :
              e.op = "execute_postgres_full" => (e.res = "driver_absent" /\ e.n = 0)
    /\ \A e \in Calls(trace) : e.res = "driver_absent" => pc # "fatal"

(***************************************************************************)
(* Column names compared without regard to case, independently of upper.   *)
(***************************************************************************)
Letters == 1..Len(LowerChars)

\* the same letter in the other case
SwapOf ==
    [c \in {LowerChars[i] : i \in Letters} \cup {UpperChars[i] : i \in Letters} |->
        LET i == CHOOSE j \in Letters : c \in {LowerChars[j], UpperChars[j]}
        IN  IF c = LowerChars[i] THEN UpperChars[i] ELSE LowerChars[i]]

SameName(k1, k2) ==
    /\ Len(k1) = Len(k2)
    /\ \A i \in 1..Len(k1) : k2[i] \in {k1[i], SwapOf[k1[i]]}

\* every casing of the column name k
Casings(k) ==
    {[i \in 1..Len(k) |-> IF m[i] THEN SwapOf[k[i]] ELSE k[i]] :
        m \in [1..Len(k) -> BOOLEAN]}

\* the row with the name of its i-th column replaced by k
Renamed(row, i, k) == [row EXCEPT ![i] = <<k, row[i][2]>>]

\* the row with every column name in lower case but the first `caps` letters
CasedRow(row, caps) ==
    [i \in 1..Len(row) |->
        <<[j \in 1..Len(row[i][1]) |->
              LET c == row[i][1][j]
                  isUpper == \E l \in Letters : c = UpperChars[l]
              IN  IF (j <= caps) = isUpper THEN c ELSE SwapOf[c]],
          row[i][2]>>]

\* the value of the last column of the row named `field` in any casing
ValueOf(row, field) ==
    LET hits == {i \in 1..Len(row) : SameName(row[i][1], field)}
    IN  IF hits = {} THEN None
        ELSE row[CHOOSE i \in hits : \A j \in hits : j <= i][2]

\* the consolidated record the row is to produce
Consolidated(row, source_account, source_db) ==
    [SourceAccount |-> source_account,
     SourceDB |-> source_db,
     ID |-> ValueOf(row, <<"i", "d">>),
     DESCRIPTION |-> ValueOf(row, <<"d", "e", "s", "c", "r", "i", "p", "t", "i", "o", "n">>),
     STATUS |-> ValueOf(row, <<"s", "t", "a", "t", "u", "s">>),
     UDATE |-> ValueOf(row, <<"u", "d", "a", "t", "e">>),
     INSTALLDATE |-> ValueOf(row, <<"i", "n", "s", "t", "a", "l", "l", "d", "a", "t", "e">>)]

\* the rows of the table written for instance db_id of account a, in order
WrittenFor(a, db_id) ==
    LET Mine(r) == r.SourceAccount = <<"AWS Account", a>> /\ r.SourceDB = db_id
    IN  SelectSeq(table, Mine)

(***************************************************************************)
(* C13: every row written by save_batch_to_central is the consolidated     *)
(* record of its source row: each of the five fields holds the value of    *)
(* the column of that name in whatever casing, None when the row has no    *)
(* such column, and no other column is kept; and the record built from a   *)
(* fetched row does not change when any one of its column names is put in  *)
(* any other casing, or all of them in lower, capitalised or upper case.   *)
(***************************************************************************)
C13_KeyCaseIsNormalised ==
    /\ \A w \in Calls(trace) :
          (w.op = "save_batch" /\ w.res = "ok") =>
              WrittenFor(w.acc, w.db) =
                  [k \in 1..w.n |->
                      Consolidated(SourceRow(k), TARGET_ACCOUNTS[w.acc].Name, w.db)]
    /\ \A r \in 1..Len(full_data) :
          pc = "fetched" =>
          LET row == full_data[r]
              rec == Consolidated(row, account.Name, db.DBInstanceIdentifier)
          IN  /\ \A i \in 1..Len(row) : \A k \in Casings(row[i][1]) :
                    Param(Renamed(row, i, k), account.Name, db.DBInstanceIdentifier) = rec
              /\ \A caps \in {0, 1, Len(LowerChars)} :
                    Param(CasedRow(row, caps), account.Name, db.DBInstanceIdentifier) = rec

\* C13, reached: a batch with a lower-case row and an upper-case row was
\* written; the first has no UDATE column and a column that is dropped
C13_Witness ==
    /\ pc = "done"
    /\ \E w \in Calls(trace) :
          /\ w.op = "save_batch" /\ w.res = "ok" /\ w.n = 2
          /\ WrittenFor(w.acc, w.db)[1].ID = "1"
          /\ WrittenFor(w.acc, w.db)[1].UDATE = None
          /\ WrittenFor(w.acc, w.db)[2].ID = "1"
          /\ WrittenFor(w.acc, w.db)[2].UDATE = "u2"

(***************************************************************************)
(* C14: whenever lambda_handler has returned, with statusCode 200 or with  *)
(* statusCode 500, the connection to the main repository is not open: it   *)
(* was never opened or it has been closed.                                 *)
(***************************************************************************)
C14_NoReturnLeavesCentralOpen ==
    pc \in {"done", "fatal"} => central_conn # "open"

(***************************************************************************)
(* C15: no connection opened by execute_mssql_full or by                   *)
(* execute_postgres_full is open once the reader has returned.             *)
(***************************************************************************)
C15_ReadersCloseWhatTheyOpen ==
    open_sources = 0

(***************************************************************************)
(* C16: a call of save_batch_to_central either appends one row per row of  *)
(* the batch, tagged with the account name and the instance, keeps every   *)
(* earlier row and returns the length of the batch; or it raises, the      *)
(* table is what it was before the call, and the exception reaches the     *)
(* caller (nothing is added to the total or to the report).                *)
(***************************************************************************)
C16_BatchIsAllOrNothing ==
    [][(pc = "fetched" /\ trace' # trace) =>
          LET e == trace'[Len(trace')]
              n == Len(full_data)
          IN  /\ e.op = "save_batch"
              /\ \/ /\ e.res = "ok"
                    /\ e.n = n
                    /\ Len(table') = Len(table) + n
                    /\ SubSeq(table', 1, Len(table)) = table
                    /\ \A k \in 1..n :
                          /\ table'[Len(table) + k].SourceAccount = account.Name
                          /\ table'[Len(table) + k].SourceDB = db.DBInstanceIdentifier
                          /\ table'[Len(table) + k].ID = ValueOf(full_data[k], <<"i", "d">>)
                    /\ total_synced' = total_synced + n
                 \/ /\ e.res = "raise"
                    /\ table' = table
                    /\ pc' = "raised"
                    /\ total_synced' = total_synced
                    /\ report' = report]_vars

\* C16, reached: a batch was committed and the next batch failed
C16_Witness ==
    /\ pc = "raised"
    /\ trace[Len(trace)].op = "save_batch"
    /\ trace[Len(trace)].res = "raise"
    /\ \E w \in Calls(trace) : w.op = "save_batch" /\ w.res = "ok" /\ w.n = Len(table)
    /\ Len(table) = MaxRows

ReaderFailures == {"driver_absent", "connect_error", "query_error"}

StepOf(e) ==
    CASE e.op = "assume_role" -> 1
      [] e.op = "describe_db_instances" -> 2
      [] e.op = "get_secret" -> 1
      [] e.op \in ReaderOps -> 2
      [] OTHER -> 3

PlaceOf(e) == <<e.acc, PosOf(e.acc, e.db), StepOf(e)>>

Precedes(p, q) ==
    \/ p[1] < q[1]
    \/ p[1] = q[1] /\ p[2] < q[2]
    \/ p[1] = q[1] /\ p[2] = q[2] /\ p[3] < q[3]

(***************************************************************************)
(* C18: the calls made for tenants come in the order of TARGET_ACCOUNTS,   *)
(* within an account in the order of its listing, and within an instance   *)
(* secret lookup, reader, write, each at most once, so that every call of  *)
(* an instance comes before every call of the next; the call in progress   *)
(* is for the account and the instance the loops stand at; and the report  *)
(* has one line per successful write, in the order of the writes.          *)
(***************************************************************************)
C18_TenantsAndInstancesInOrder ==
    /\ \A i \in TenantWork, j \in TenantWork :
          i < j => Precedes(PlaceOf(trace[i]), PlaceOf(trace[j]))
    /\ \A i \in TenantWork :
          /\ trace[i].acc <= acc_idx
          /\ trace[i].acc = acc_idx => PosOf(trace[i].acc, trace[i].db) <= db_idx
          /\ trace[i].op \in InstanceOps => PosOf(trace[i].acc, trace[i].db) > 0
    /\ report = LinesOfWrites(1..NumAccounts)
    /\ \A i \in 1..Len(report), j \in 1..Len(report) :
          i < j =>
              \E a \in 1..NumAccounts, b \in 1..NumAccounts :
                  /\ PosOf(a, report[i].db_id) > 0 /\ PosOf(b, report[j].db_id) > 0
                  /\ Precedes(<<a, PosOf(a, report[i].db_id), 0>>,
                              <<b, PosOf(b, report[j].db_id), 0>>)

\* C18, reached: two instances of one listing were worked on after an
\* instance of an earlier account, and two lines were reported
C18_Witness ==
    /\ pc = "done"
    /\ Len(report) = 2
    /\ \E e \in Calls(trace), f \in Calls(trace), g \in Calls(trace) :
          /\ e.op = "save_batch" /\ f.op = "get_secret" /\ g.op = "save_batch"
          /\ e.acc < f.acc /\ f.acc = g.acc
          /\ PosOf(f.acc, f.db) < PosOf(g.acc, g.db)

\* the rows the successful writes among the calls are to have left, in order
RECURSIVE RowsOfWrites(_)
RowsOfWrites(calls) ==
    IF calls = <<>> THEN <<>>
    ELSE LET e == calls[1]
             rows == IF e.op = "save_batch" /\ e.res = "ok"
                     THEN [k \in 1..e.n |->
                              Consolidated(SourceRow(k), <<"AWS Account", e.acc>>, e.db)]
                     ELSE <<>>
         IN  rows \o RowsOfWrites(Tail(calls))

Truncated == \E e \in Calls(trace) : e.op = "truncate" /\ e.res = "ok"

(***************************************************************************)
(* C19: from the successful truncation on, the table holds exactly the     *)
(* rows of the batches written so far in this invocation, in the order of  *)
(* the writes, each with the name of its account and its instance: no row  *)
(* older than the truncation, none of an instance that is not reached yet  *)
(* or whose write failed.  The number of rows is total_synced, and         *)
(* total_records of the 200 result.                                        *)
(***************************************************************************)
C19_TableIsWhatWasWrittenSoFar ==
    Truncated =>
        /\ table = RowsOfWrites(trace)
        /\ Len(table) = total_synced
        /\ \A i \in 1..Len(table) :
              \E a \in 1..acc_idx :
                  /\ table[i].SourceAccount = TARGET_ACCOUNTS[a].Name
                  /\ PosOf(a, table[i].SourceDB) > 0
                  /\ a = acc_idx => PosOf(a, table[i].SourceDB) <= db_idx
        /\ pc = "done" => result.body[1].total_records = Len(table)

\* C19, reached in the middle of a load: one batch is written and the rows of
\* a later instance are fetched but not written yet
C19_Witness ==
    /\ Truncated
    /\ pc = "fetched"
    /\ acc_idx = NumAccounts
    /\ Len(table) = MaxRows
    /\ full_data # <<>>

\* the engine of instance db_id in the listing of account a
EngineOf(a, db_id) == DBInstances(a)[PosOf(a, db_id)].Engine

Unsupported(engine) == ~Contains(engine, "sqlserver") /\ ~Contains(engine, "postgres")

\* engine names with one of the two words, with both in either order, with none
EngineSamples ==
    {<<"sqlserver", "-se">>, <<"sqlserver", "-ex">>, <<"postgres">>,
     <<"aurora-", "postgres", "ql">>, <<"sqlserver", "postgres">>,
     <<"postgres", "-", "sqlserver">>, <<"mysql">>, <<"oracle-ee">>, <<>>}

(***************************************************************************)
(* C20: for an instance whose engine has neither "sqlserver" nor           *)
(* "postgres" in its name the secret is looked up, and when it is there    *)
(* no reader is called and nothing is written: the steps from line 271 to  *)
(* the next instance make no call and leave the table, the total and the   *)
(* report as they are.  At most one reader is called for an instance:      *)
(* execute_mssql_full when the name has "sqlserver", whether or not it has *)
(* "postgres" too, execute_postgres_full when it has "postgres" only.      *)
(***************************************************************************)
C20_UnsupportedEngineIsNoData ==
    /\ [](\A i \in TenantWork :
            LET e == trace[i]
                engine == EngineOf(e.acc, e.db)
            IN  /\ e.op = "execute_mssql_full" => Contains(engine, "sqlserver")
                /\ e.op = "execute_postgres_full" =>
                      (Contains(engine, "postgres") /\ ~Contains(engine, "sqlserver"))
                /\ e.op \in ReaderOps =>
                      \A j \in TenantWork :
                          (/\ trace[j].op \in ReaderOps
                           /\ trace[j].acc = e.acc
                           /\ trace[j].db = e.db) => j = i
                /\ (e.op \in InstanceOps /\ Unsupported(engine)) =>
                      (e.op = "get_secret" /\ WrittenFor(e.acc, e.db) = <<>>))
    /\ [][(pc \in {"dispatch", "fetched"} /\ Unsupported(db.Engine)) =>
              (/\ pc' = (IF pc = "dispatch" THEN "fetched" ELSE "instance_loop")
               /\ full_data' = <<>>
               /\ trace' = trace
               /\ db_idx' = db_idx /\ acc_idx' = acc_idx /\ dbs' = dbs
               /\ table' = table /\ total_synced' = total_synced /\ report' = report)]_vars
    /\ \A engine \in EngineSamples :
          /\ Contains(engine, "sqlserver") => Dispatch(engine) = "execute_mssql_full"
          /\ Unsupported(engine) => Dispatch(engine) = "none"

\* C20, reached: the secret of a mysql instance was found, the load went on
\* to the next instance of the listing, wrote its rows and finished
C20_Witness ==
    /\ pc = "done"
    /\ \E s \in Calls(trace), w \in Calls(trace) :
          /\ s.op = "get_secret" /\ s.acc > 0 /\ s.res = "dict"
          /\ Unsupported(EngineOf(s.acc, s.db))
          /\ w.op = "save_batch" /\ w.res = "ok" /\ w.acc = s.acc
          /\ PosOf(w.acc, w.db) > PosOf(s.acc, s.db)
====
